---- MODULE Spec2Model ----
(***************************************************************************)
(* The session-tracing state machine of opencode-plugin-langfuse           *)
(* (src/index.ts): the hooks returned by createLangfusePlugin, the         *)
(* registry `traces`, and the calls they make on the Langfuse client.      *)
(*                                                                         *)
(* Every handler is an async function.  The handlers of session.error,     *)
(* session.idle and session.deleted suspend at `await                      *)
(* langfuse.flushAsync()`; the part of a handler before the await is one   *)
(* step, the part after it (FlushResolved / FlushRejected) is another, and *)
(* any other handler may run in between.                                   *)
(***************************************************************************)
EXTENDS Integers, Sequences, FiniteSets, Bags, TLC

----------------------------------------------------------------------------
(* Bounds of the model *)

MaxSteps == 3      \* handler invocations in one run
MaxTime == 2       \* readings of the wall clock: 1..MaxTime
MaxLiveSteps == 5  \* handler invocations in one run on a single session
MaxPluginSteps == 2    \* deliveries by the host in one run, per configuration

(* Input domains *)

SessionIds == {"s1", "s2"}
MessageIds == {"m1", "m2"}
CallIds == {"c1", "c2"}
Texts == {"Hello", "Hello world"}
Tools == {"read"}
ArgsSet == {"a1", "a2"}

UNDEF == "<undefined>"           \* JavaScript undefined, for string-valued fields
NoTime == 0                      \* an absent (or falsy) timestamp
PartStarts == {NoTime, 1, 2}     \* part.time.start
PartEnds == {NoTime, 3}          \* part.time.end
NoModel == [modelID |-> UNDEF, providerID |-> UNDEF]     \* input.model absent
ModelInfos == {[modelID |-> "gpt", providerID |-> "openai"]}
Titles == {UNDEF, "", "My session"}   \* session.title: absent, empty, given
NoError == [present |-> FALSE, name |-> UNDEF, data |-> UNDEF]   \* error absent
ErrorValues == { NoError,
                 [present |-> TRUE, name |-> UNDEF, data |-> UNDEF],
                 [present |-> TRUE, name |-> "ApiError", data |-> "details"] }
Statuses == {"busy"}
UserParts == { <<>>,
               << [type |-> "text", text |-> "hi"] >>,
               << [type |-> "text", text |-> "hi"], [type |-> "file", text |-> UNDEF],
                  [type |-> "text", text |-> "there"] >> }
OtherTypes == {"session.compacted", "file.edited"}   \* event types with no case
NoUsage == [input |-> 0, output |-> 0, cost |-> 0]
TokenCounts == {[input |-> 100, output |-> 50]}     \* info.tokens of a message.updated
Costs == {5}                     \* info.cost, in thousandths of a dollar

----------------------------------------------------------------------------
VARIABLES
    config,         \* the LangfusePluginConfig given to createLangfusePlugin
    env,            \* process.env when the plugin starts
    hooks,          \* the names of the hooks the plugin returned to the host
    budget,         \* handler invocations the host makes in one run
    traces,         \* Map<string, TraceState>: a function on the registered ids
    pending,        \* bag of handlers suspended at `await langfuse.flushAsync()`
    now,            \* the wall clock (Date.now(), new Date())
    promptVersion,  \* resolved once at plugin start
    calls,          \* the calls made on the Langfuse client by the latest step
    steps,          \* handler invocations so far
    last,           \* the latest step: handler, session id, whether the id was
                    \* registered when it began, its input, the instant it ran at
    created,        \* history: ids for which session.created has been handled
    live,           \* history: ids created, with no session.idle/session.deleted
                    \* handler returned since
    unflushed,      \* history: traces with a record made since flushAsync was last invoked
    overlapped,     \* history: an event was delivered while an event handler was suspended
    afterCount,     \* history: tool.execute.after handled per id since its session.created
    notified,       \* history: the model info of the latest assistant chat.message
                    \* per id and message id since the id's session.created
    backfilled,     \* history: the input back-filled by the latest assistant
                    \* chat.message per id and message id since the id's session.created
    usage,          \* history: tokens and cost of the message.updated events handled
                    \* per id since its session.created
    completions,    \* history: generations of completed parts per id and message id
    emitted,        \* history: the generations and the scores of each name made on
                    \* each id's trace since the id's session.created
    userId,         \* UserIdSpanProcessor: the user id given to the constructor
    attributes,     \* the "langfuse.user.id" attribute of each span
    processor,      \* the calls received by the wrapped LangfuseSpanProcessor
    invoked         \* the methods of the UserIdSpanProcessor invoked so far

vars == <<config, env, hooks, budget, traces, pending, now, promptVersion, calls,
          steps, last, created, live, unflushed, overlapped, afterCount, notified,
          backfilled, usage, completions, emitted, userId, attributes, processor, invoked>>

\* the UserIdSpanProcessor, its spans and the processor it wraps
wrapper == <<userId, attributes, processor, invoked>>

\* what is fixed once the plugin has started
plugin == <<config, env, hooks, budget, promptVersion>>

----------------------------------------------------------------------------
(* JavaScript helpers *)

\* truthiness of a string-valued expression: undefined and "" are falsy
Truthy(x) == x # UNDEF /\ x # ""

\* a || b on strings
OrElse(a, b) == IF Truthy(a) THEN a ELSE b

\* a || b on timestamps
OrElseTime(a, b) == IF a # NoTime THEN a ELSE b

\* Map with insertion order: a sequence of [id, val]
MapHas(m, k) == \E i \in 1..Len(m) : m[i].id = k

MapGet(m, k) == m[CHOOSE i \in 1..Len(m) : m[i].id = k].val

MapSet(m, k, v) ==
    IF MapHas(m, k)
    THEN [i \in 1..Len(m) |-> IF m[i].id = k THEN [id |-> k, val |-> v] ELSE m[i]]
    ELSE Append(m, [id |-> k, val |-> v])

MapDelete(m, k) == SelectSeq(m, LAMBDA e : e.id # k)

\* Map without iteration: a function on its keys
EmptyFcn == [x \in {} |-> x]

Put(f, k, v) == [x \in (DOMAIN f) \cup {k} |-> IF x = k THEN v ELSE f[x]]

Remove(f, k) == [x \in (DOMAIN f) \ {k} |-> f[x]]

\* parts.filter(p => p.type === "text").map(p => p.text)
TextsOf(parts) ==
    LET sel == SelectSeq(parts, LAMBDA p : p.type = "text")
    IN [i \in 1..Len(sel) |-> sel[i].text]

\* Array.prototype.join("\n")
RECURSIVE JoinNl(_)
JoinNl(ts) ==
    IF Len(ts) = 0 THEN ""
    ELSE IF Len(ts) = 1 THEN ts[1]
    ELSE ts[1] \o "\n" \o JoinNl(Tail(ts))

----------------------------------------------------------------------------
(* createLangfusePlugin(config)(_input): the keys, the prompt version and   *)
(* the hooks returned                                                        *)

\* b ?? a: the second operand wins when it is given
CoalesceSecondFirst(a, b) == IF b # UNDEF THEN b ELSE a

\* a ?? b
Coalesce(a, b) == IF a # UNDEF THEN a ELSE b

publicKey == Coalesce(config.publicKey, env.LANGFUSE_PUBLIC_KEY)

secretKey == Coalesce(config.secretKey, env.LANGFUSE_SECRET_KEY)

DefaultBaseUrl == "https://cloud.langfuse.com"

\* config.baseUrl ?? process.env.LANGFUSE_BASEURL ?? "https://cloud.langfuse.com"
baseUrl == Coalesce(Coalesce(config.baseUrl, env.LANGFUSE_BASEURL), DefaultBaseUrl)

\* config.promptVersion ?? process.env.PROMPT_VERSION
ResolvedPromptVersion(cfg, e) == Coalesce(cfg.promptVersion, e.PROMPT_VERSION)

\* the keys of `handlers`
Handlers == {"event", "chat.message", "tool.execute.before", "tool.execute.after"}

\* if (!publicKey && !secretKey) return {}
ReturnedHooksBothMissing(pk, sk) ==
    IF ~Truthy(pk) /\ ~Truthy(sk) THEN {} ELSE Handlers

\* if (!publicKey || !secretKey) return {}; ... return handlers
ReturnedHooks(pk, sk) ==
    IF ~Truthy(pk) \/ ~Truthy(sk) THEN {} ELSE Handlers

----------------------------------------------------------------------------
(* Calls on the Langfuse client *)

\* ["opencode", promptVersion], with nothing filtered out
TagsUnfiltered(pv) == <<"opencode", pv>>

\* ["opencode", promptVersion].filter(Boolean)
Tags(pv) == IF Truthy(pv) THEN <<"opencode", pv>> ELSE <<"opencode">>

\* a trace named by the title alone, with no default name
TraceCallNamedByTitle(sid, title) ==
    [kind |-> "trace", trace |-> sid,
     name |-> title,
     tags |-> Tags(promptVersion),
     metadata |-> [promptVersion |-> promptVersion, directory |-> "/test",
                   version |-> "1.0.0"]]

TraceCall(sid, title) ==
    [kind |-> "trace", trace |-> sid,
     name |-> OrElse(title, "OpenCode Session"),
     tags |-> Tags(promptVersion),
     metadata |-> [promptVersion |-> promptVersion, directory |-> "/test",
                   version |-> "1.0.0"]]

ScoreCall(sid, name, value) ==
    [kind |-> "score", trace |-> sid, name |-> name, value |-> value]

EventCall(sid, name, level, output) ==
    [kind |-> "event", trace |-> sid, name |-> name, level |-> level, output |-> output]

FlushCall == [kind |-> "flush", trace |-> UNDEF]

\* the generation of a completed message with `input: existing.input`
CompletedGenerationOwnInput(state, messageId, existing) ==
    [kind |-> "generation", trace |-> state.trace, name |-> "ai-response",
     model |-> OrElse(existing.model, "unknown"),
     input |-> existing.input,
     output |-> existing.text,
     messageId |-> messageId, partId |-> "part-1",
     providerId |-> existing.providerId,
     startTime |-> existing.startTime, endTime |-> existing.endTime]

\* the generation of a completed message (message.part.updated with time.end)
CompletedGeneration(state, messageId, existing) ==
    [kind |-> "generation", trace |-> state.trace, name |-> "ai-response",
     model |-> OrElse(existing.model, "unknown"),
     input |-> OrElse(existing.input, state.lastUserInput),
     output |-> existing.text,
     messageId |-> messageId, partId |-> "part-1",
     providerId |-> existing.providerId,
     startTime |-> existing.startTime, endTime |-> existing.endTime]

\* the generation of a message still buffered at a terminal event
PendingGeneration(state, messageId, msg, t) ==
    [kind |-> "generation", trace |-> state.trace, name |-> "ai-response",
     model |-> OrElse(msg.model, "unknown"),
     input |-> OrElse(msg.input, state.lastUserInput),
     output |-> msg.text,
     messageId |-> messageId, partId |-> UNDEF,
     providerId |-> msg.providerId,
     startTime |-> msg.startTime, endTime |-> OrElseTime(msg.endTime, t)]

\* the span with `startTime: new Date()` in place of the recorded start
SpanCallStartsNow(state, input, execution, output, t) ==
    [kind |-> "span", trace |-> state.trace, name |-> "tool." \o input.tool,
     input |-> execution.args, output |-> output,
     startTime |-> t, endTime |-> t,
     tool |-> input.tool, sessionId |-> input.sessionID, callId |-> input.callID]

SpanCall(state, input, execution, output, t) ==
    [kind |-> "span", trace |-> state.trace, name |-> "tool." \o input.tool,
     input |-> execution.args, output |-> output,
     startTime |-> OrElseTime(execution.startTime, t), endTime |-> t,
     tool |-> input.tool, sessionId |-> input.sessionID, callId |-> input.callID]

----------------------------------------------------------------------------
(* State records *)

\* { text: "" }
EmptyMessage ==
    [text |-> "", startTime |-> NoTime, endTime |-> NoTime,
     model |-> UNDEF, providerId |-> UNDEF, input |-> UNDEF]

\* the TraceState registered by session.created
NewTraceState(sid, t) ==
    [trace |-> sid, sessionId |-> sid, startTime |-> t,
     messageCount |-> 0, toolCallCount |-> 0,
     messages |-> <<>>, toolExecutions |-> EmptyFcn,
     lastUserInput |-> UNDEF]

\* execution?.x of a call id that was never recorded
NoExecution == [startTime |-> NoTime, tool |-> UNDEF, args |-> UNDEF]

Tracked(sid) == sid \in DOMAIN traces

----------------------------------------------------------------------------
(* recordSessionScores and flushPendingMessages *)

\* tools-count that counts the tool executions still in flight as well
recordSessionScoresCountsInFlight(state, t) ==
    << ScoreCall(state.trace, "messages-count", state.messageCount),
       ScoreCall(state.trace, "tools-count",
                 state.toolCallCount + Cardinality(DOMAIN state.toolExecutions)),
       ScoreCall(state.trace, "duration-ms", t - state.startTime) >>

\* the two counters swapped
recordSessionScoresSwapped(state, t) ==
    << ScoreCall(state.trace, "messages-count", state.toolCallCount),
       ScoreCall(state.trace, "tools-count", state.messageCount),
       ScoreCall(state.trace, "duration-ms", t - state.startTime) >>


recordSessionScores(state, t) ==
    << ScoreCall(state.trace, "messages-count", state.messageCount),
       ScoreCall(state.trace, "tools-count", state.toolCallCount),
       ScoreCall(state.trace, "duration-ms", t - state.startTime) >>

\* the generation calls of the loop, in the Map's iteration order
RECURSIVE PendingGenerations(_, _, _)
PendingGenerations(state, entries, t) ==
    IF entries = <<>> THEN <<>>
    ELSE LET e == Head(entries)
             rest == PendingGenerations(state, Tail(entries), t)
         IN IF Truthy(e.val.text)
            THEN <<PendingGeneration(state, e.id, e.val, t)>> \o rest
            ELSE rest

\* the loop without `if (msg.text)`
flushPendingMessagesAll(state, t) ==
    [i \in 1..Len(state.messages) |->
        PendingGeneration(state, state.messages[i].id, state.messages[i].val, t)]


flushPendingMessages(state, t) == PendingGenerations(state, state.messages, t)

----------------------------------------------------------------------------
(* The frame every handler invocation shares: it runs at an instant t, no     *)
(* earlier than the latest reading of the clock.                              *)

Instants == {t \in {now, now + 1} : t <= MaxTime}

RecordKinds == {"generation", "span", "score", "event"}

\* the traces with a record not yet followed by an invocation of flushAsync
RECURSIVE Unflushed(_, _)
Unflushed(u, cs) ==
    IF cs = <<>> THEN u
    ELSE IF Head(cs).kind = "flush" THEN Unflushed({}, Tail(cs))
    ELSE IF Head(cs).kind \in RecordKinds
    THEN Unflushed(u \cup {Head(cs).trace}, Tail(cs))
    ELSE Unflushed(u, Tail(cs))

ScoreNames == {"messages-count", "tools-count", "duration-ms"}

NoneEmitted == [generations |-> 0, scores |-> [n \in ScoreNames |-> 0]]

\* the records counted in `emitted` after a step of op for sid that made cs
\* (a handler makes records on the trace of its own session only)
Emitted(op, sid, cs) ==
    IF op = "session.created" THEN [emitted EXCEPT ![sid] = NoneEmitted]
    ELSE IF \A i \in DOMAIN cs : cs[i].kind \notin {"generation", "score"} THEN emitted
    ELSE [emitted EXCEPT ![sid] =
            [generations |->
                @.generations
                   + Len(SelectSeq(cs, LAMBDA c : c.kind = "generation" /\ c.trace = sid)),
             scores |->
                [n \in ScoreNames |->
                    @.scores[n]
                       + Len(SelectSeq(cs, LAMBDA c : /\ c.kind = "score"
                                                     /\ c.trace = sid
                                                     /\ c.name = n))]]]

\* the handlers of the `event` hook; the others are hooks of their own
HookOps == {"chat.message", "tool.execute.before", "tool.execute.after"}

Generations(cs) == SelectSeq(cs, LAMBDA c : c.kind = "generation")

\* the handlers other than session.created
OtherHandlerOps ==
    {"message.part.updated", "session.error", "session.idle", "session.deleted",
     "session.status", "chat.message", "tool.execute.before", "tool.execute.after"}

\* the hook through which the host delivers op
HookOf(op) == IF op \in HookOps THEN op ELSE "event"

\* a handler may be invoked at instant t
MayInvoke(t) == steps < budget /\ t \in Instants

Invoke(op, sid, arg, t) ==
    /\ HookOf(op) \in hooks
    /\ now' = t
    /\ steps' = steps + 1
    /\ last' = [op |-> op, sid |-> sid, tracked |-> Tracked(sid), arg |-> arg, at |-> t]
    /\ unflushed' = Unflushed(unflushed, calls')
    /\ emitted' = IF calls' = <<>> THEN emitted ELSE Emitted(op, sid, calls')
    /\ overlapped' = (overlapped \/ (op \notin HookOps /\ pending # EmptyBag))
    /\ UNCHANGED <<plugin, wrapper>>

----------------------------------------------------------------------------
(* event: "session.created" *)

\* session.created that keeps the state of an id already registered
SessionCreatedTracesKeepExisting(sid, t) ==
    IF Tracked(sid) THEN traces ELSE Put(traces, sid, NewTraceState(sid, t))

SessionCreatedTraces(sid, t) == Put(traces, sid, NewTraceState(sid, t))

SessionCreatedCalls(sid, title) == <<TraceCall(sid, title)>>

SessionCreated(sid, title, t) ==
    /\ MayInvoke(t)
    /\ traces' = SessionCreatedTraces(sid, t)
    /\ calls' = SessionCreatedCalls(sid, title)
    /\ created' = created \cup {sid}
    /\ live' = live \cup {sid}
    /\ afterCount' = [afterCount EXCEPT ![sid] = 0]
    /\ completions' = [completions EXCEPT ![sid] = [m \in MessageIds |-> 0]]
    /\ notified' = [notified EXCEPT ![sid] = [m \in MessageIds |-> NoModel]]
    /\ backfilled' = [backfilled EXCEPT ![sid] = [m \in MessageIds |-> UNDEF]]
    /\ usage' = [usage EXCEPT ![sid] = NoUsage]
    /\ Invoke("session.created", sid, title, t)
    /\ UNCHANGED pending

----------------------------------------------------------------------------
(* event: "message.part.updated" *)

\* state.messages.get(messageId) || { text: "" }
ExistingMessage(state, messageId) ==
    IF MapHas(state.messages, messageId)
    THEN MapGet(state.messages, messageId)
    ELSE EmptyMessage

\* existing.text += part.text
AssignTextAppend(existing, part) == [existing EXCEPT !.text = @ \o part.text]

\* existing.text = part.text
AssignText(existing, part) == [existing EXCEPT !.text = part.text]

\* if (part.time?.start) existing.startTime = ...
AssignStartTimeAlways(existing, part) ==
    IF part.start # NoTime
    THEN [existing EXCEPT !.startTime = part.start]
    ELSE existing

\* if (part.time?.start && !existing.startTime) existing.startTime = ...
AssignStartTime(existing, part) ==
    IF part.start # NoTime /\ existing.startTime = NoTime
    THEN [existing EXCEPT !.startTime = part.start]
    ELSE existing

\* existing after the assignments of text, startTime and (with time.end) endTime
UpdatedMessage(existing, part) ==
    LET e == AssignStartTime(AssignText(existing, part), part)
    IN IF part.end # NoTime THEN [e EXCEPT !.endTime = part.end] ELSE e

\* a completion that stores the completed message instead of deleting it
PartUpdatedStateKeepsCompleted(state, part) ==
    LET existing == UpdatedMessage(ExistingMessage(state, part.messageID), part)
    IN IF part.end # NoTime
       THEN [state EXCEPT !.messageCount = @ + 1,
                          !.messages = MapSet(@, part.messageID, existing)]
       ELSE [state EXCEPT !.messages = MapSet(@, part.messageID, existing)]

\* the TraceState after a text part
PartUpdatedState(state, part) ==
    LET existing == UpdatedMessage(ExistingMessage(state, part.messageID), part)
    IN IF part.end # NoTime
       THEN [state EXCEPT !.messageCount = @ + 1,
                          !.messages = MapDelete(@, part.messageID)]
       ELSE [state EXCEPT !.messages = MapSet(@, part.messageID, existing)]

\* the client calls of a text part
PartUpdatedCalls(state, part) ==
    LET existing == UpdatedMessage(ExistingMessage(state, part.messageID), part)
    IN IF part.end # NoTime
       THEN <<CompletedGeneration(state, part.messageID, existing)>>
       ELSE <<>>

\* if (!state) break; with no test of part.type
PartHandledAnyType(part) == Tracked(part.sessionID)

\* if (!state) break; if (part.type === "text") { ... }
PartHandled(part) == Tracked(part.sessionID) /\ part.type = "text"

MessagePartUpdated(part, t) ==
    /\ MayInvoke(t)
    /\ traces' = IF PartHandled(part)
                 THEN [traces EXCEPT ![part.sessionID] = PartUpdatedState(@, part)]
                 ELSE traces
    /\ calls' = IF PartHandled(part)
                THEN PartUpdatedCalls(traces[part.sessionID], part)
                ELSE <<>>
    /\ completions' =
          [completions EXCEPT ![part.sessionID][part.messageID] =
              @ + Len(Generations(calls'))]
    /\ Invoke("message.part.updated", part.sessionID, part, t)
    /\ UNCHANGED <<pending, created, live, afterCount, notified, backfilled, usage>>

----------------------------------------------------------------------------
(* event: "session.error" *)

\* error ? { type: "unknown", data: undefined } : undefined
ErrorOutputAnonymous(error) ==
    IF error.present
    THEN [defined |-> TRUE, type |-> "unknown", data |-> UNDEF]
    ELSE [defined |-> FALSE, type |-> UNDEF, data |-> UNDEF]

\* error ? { type: error.name || "unknown", data: error.data } : undefined
ErrorOutput(error) ==
    IF error.present
    THEN [defined |-> TRUE, type |-> OrElse(error.name, "unknown"), data |-> error.data]
    ELSE [defined |-> FALSE, type |-> UNDEF, data |-> UNDEF]

\* if (!sessionId) break; if (!state) break;
ErrorHandled(sid) == Truthy(sid) /\ Tracked(sid)

\* session.error without `await langfuse.flushAsync()`
SessionErrorCallsNoFlush(sid, error) ==
    IF ErrorHandled(sid)
    THEN << EventCall(traces[sid].trace, "session-error", "ERROR", ErrorOutput(error)) >>
    ELSE <<>>


SessionErrorCalls(sid, error) ==
    IF ErrorHandled(sid)
    THEN << EventCall(traces[sid].trace, "session-error", "ERROR", ErrorOutput(error)),
            FlushCall >>
    ELSE <<>>

\* the handlers suspended at the await, with this one added
Suspended(type, sid) == pending (+) SetToBag({[type |-> type, sid |-> sid]})

SessionError(sid, error, t) ==
    /\ MayInvoke(t)
    /\ calls' = SessionErrorCalls(sid, error)
    /\ pending' = IF ErrorHandled(sid) THEN Suspended("session.error", sid) ELSE pending
    /\ Invoke("session.error", sid, error, t)
    /\ UNCHANGED <<traces, created, live, afterCount, notified, backfilled, usage,
                   completions>>

----------------------------------------------------------------------------
(* events: "session.idle" and "session.deleted", up to the await *)

\* flushAsync() invoked before the generations and the scores are made
TerminalCallsFlushFirst(sid, t) ==
    IF Tracked(sid)
    THEN <<FlushCall>>
            \o flushPendingMessages(traces[sid], t)
            \o recordSessionScores(traces[sid], t)
    ELSE <<>>

\* case "session.idle": flushPendingMessages(state); recordSessionScores(state);
\* langfuse.flushAsync()
TerminalCalls(sid, t) ==
    IF Tracked(sid)
    THEN flushPendingMessages(traces[sid], t)
            \o recordSessionScores(traces[sid], t)
            \o <<FlushCall>>
    ELSE <<>>

\* traces.delete(sessionId) before the await
TerminalTracesDeleteEarly(sid) == Remove(traces, sid)

\* case "session.idle": state.messages.clear()
TerminalTraces(sid) ==
    IF Tracked(sid)
    THEN [traces EXCEPT ![sid].messages = <<>>]
    ELSE traces

\* case "session.deleted" with recordSessionScores left out
SessionDeletedCallsNoScores(sid, t) ==
    IF Tracked(sid)
    THEN flushPendingMessages(traces[sid], t) \o <<FlushCall>>
    ELSE <<>>

\* case "session.deleted": its own flushPendingMessages(state);
\* recordSessionScores(state); langfuse.flushAsync()
SessionDeletedCalls(sid, t) ==
    IF ~Tracked(sid) THEN <<>>
    ELSE LET state == traces[sid]
         IN flushPendingMessages(state, t)
               \o recordSessionScores(state, t)
               \o <<FlushCall>>

\* case "session.deleted": state.messages.clear()
SessionDeletedTraces(sid) ==
    IF ~Tracked(sid) THEN traces
    ELSE [traces EXCEPT ![sid] = [@ EXCEPT !.messages = <<>>]]

Terminal(type, sid, t) ==
    /\ MayInvoke(t)
    /\ calls' = IF type = "session.deleted"
                THEN SessionDeletedCalls(sid, t)
                ELSE TerminalCalls(sid, t)
    /\ traces' = IF type = "session.deleted"
                 THEN SessionDeletedTraces(sid)
                 ELSE TerminalTraces(sid)
    /\ pending' = IF Tracked(sid) THEN Suspended(type, sid) ELSE pending
    /\ live' = IF Tracked(sid) THEN live ELSE live \ {sid}
    /\ Invoke(type, sid, UNDEF, t)
    /\ UNCHANGED <<created, afterCount, notified, backfilled, usage, completions>>

SessionIdle(sid, t) == Terminal("session.idle", sid, t)

SessionDeleted(sid, t) == Terminal("session.deleted", sid, t)

----------------------------------------------------------------------------
(* the awaited flushAsync() settles and the suspended handler goes on *)

TerminalTypes == {"session.idle", "session.deleted"}

\* session.idle and session.deleted without traces.delete(sessionId)
AfterFlushKeep(h) == traces

\* case "session.deleted": traces.delete(sessionId) after the await
SessionDeletedAfterFlush(sid) == [x \in (DOMAIN traces) \ {sid} |-> traces[x]]

\* traces.delete(sessionId) after the await of session.error as well
AfterFlushAnyType(h) == Remove(traces, h.sid)

\* traces.delete(sessionId) of session.idle and session.deleted
AfterFlush(h) ==
    IF h.type = "session.idle" THEN Remove(traces, h.sid)
    ELSE IF h.type = "session.deleted" THEN SessionDeletedAfterFlush(h.sid)
    ELSE traces

Resume(op, h) ==
    /\ BagIn(h, pending)
    /\ pending' = pending (-) SetToBag({h})
    /\ calls' = <<>>
    /\ last' = [op |-> op, sid |-> h.sid, tracked |-> Tracked(h.sid),
                arg |-> h.type, at |-> now]
    /\ UNCHANGED <<now, plugin, wrapper, emitted, steps, created, unflushed, overlapped,
                   afterCount, notified, backfilled, usage, completions>>

FlushResolved(h) ==
    /\ traces' = AfterFlush(h)
    /\ live' = IF h.type \in TerminalTypes THEN live \ {h.sid} ELSE live
    /\ Resume("flush.resolved", h)

\* a handler that catches the rejection and goes on after the await
AfterRejectionCaught(h) == AfterFlush(h)

\* `await langfuse.flushAsync()` stands in no try block: the rejection leaves
\* the handler at the await, and no statement after it runs
AfterRejection(h) == traces

\* the promise rejects: the await throws and the handler ends there, its own
\* promise rejected to the caller of the hook
FlushRejected(h) ==
    /\ traces' = AfterRejection(h)
    /\ Resume("flush.rejected", h)
    /\ UNCHANGED live

----------------------------------------------------------------------------
(* event: "session.status", and the event types with no case *)

\* session.status with an event that leaves the status out
SessionStatusCallsNoStatus(sid, status) ==
    IF Tracked(sid)
    THEN <<EventCall(traces[sid].trace, "status-update", "DEFAULT", UNDEF)>>
    ELSE <<>>

\* session.status without `if (!state) break`
SessionStatusCallsUnguarded(sid, status) ==
    <<EventCall(sid, "status-update", "DEFAULT", status)>>


SessionStatusCalls(sid, status) ==
    IF Tracked(sid)
    THEN <<EventCall(traces[sid].trace, "status-update", "DEFAULT", status)>>
    ELSE <<>>

SessionStatus(sid, status, t) ==
    /\ MayInvoke(t)
    /\ calls' = SessionStatusCalls(sid, status)
    /\ Invoke("session.status", sid, status, t)
    /\ UNCHANGED <<traces, pending, created, live, afterCount, notified, backfilled,
                   usage, completions>>

\* the event types the switch has a case for
CaseTypes == {"session.created", "message.part.updated", "session.error",
              "session.idle", "session.deleted", "session.status"}

\* a default arm that records the event on the session's trace
NoCaseCallsRecorded(type, sid) == SessionStatusCalls(sid, type)

\* the switch has no default arm: a type with no case runs no statement
NoCaseCalls(type, sid) == <<>>

\* event: "message.updated"; the switch has no case for it
MessageUpdated(info, t) ==
    /\ MayInvoke(t)
    /\ calls' = NoCaseCalls("message.updated", info.sessionID)
    /\ usage' = IF Tracked(info.sessionID)
                THEN [usage EXCEPT ![info.sessionID] =
                         [input |-> @.input + info.tokens.input,
                          output |-> @.output + info.tokens.output,
                          cost |-> @.cost + info.cost]]
                ELSE usage
    /\ Invoke("message.updated", info.sessionID, info, t)
    /\ UNCHANGED <<traces, pending, created, live, afterCount, notified, backfilled,
                   completions>>

\* session.compacted names a session; file.edited names none
OtherEvents ==
    [type : {"session.compacted"}, sessionID : SessionIds]
        \cup [type : {"file.edited"}, sessionID : {UNDEF}]

OtherEvent(type, sid, t) ==
    /\ MayInvoke(t)
    /\ calls' = NoCaseCalls(type, sid)
    /\ Invoke(type, sid, UNDEF, t)
    /\ UNCHANGED <<traces, pending, created, live, afterCount, notified, backfilled,
                   usage, completions>>

----------------------------------------------------------------------------
(* hook: "chat.message" *)

\* the TraceState after a chat.message on a tracked session
ChatMessageState(state, input, output) ==
    IF output.role = "user"
    THEN LET textParts == JoinNl(TextsOf(output.parts))
         IN IF Truthy(textParts)
            THEN [state EXCEPT !.lastUserInput = textParts]
            ELSE state
    ELSE IF output.role = "assistant" /\ input.model # NoModel
              /\ Truthy(input.messageID)
    THEN LET existing == ExistingMessage(state, input.messageID)
             filled == [existing EXCEPT !.model = input.model.modelID,
                                        !.providerId = input.model.providerID,
                                        !.input = state.lastUserInput]
         IN [state EXCEPT !.messages = MapSet(@, input.messageID, filled)]
    ELSE state

\* the assistant branch reached its `if (messageId)` body on a registered session
ModelCaptured(input, output) ==
    /\ Tracked(input.sessionID)
    /\ output.role = "assistant" /\ input.model # NoModel
    /\ Truthy(input.messageID)

ChatMessageTraces(input, output) ==
    IF Tracked(input.sessionID)
    THEN [traces EXCEPT ![input.sessionID] = ChatMessageState(@, input, output)]
    ELSE traces

ChatMessage(input, output, t) ==
    /\ MayInvoke(t)
    /\ traces' = ChatMessageTraces(input, output)
    /\ calls' = <<>>
    /\ notified' = IF ModelCaptured(input, output)
                   THEN [notified EXCEPT ![input.sessionID][input.messageID] = input.model]
                   ELSE notified
    /\ backfilled' =
          IF ModelCaptured(input, output)
          THEN [backfilled EXCEPT ![input.sessionID][input.messageID] =
                   traces[input.sessionID].lastUserInput]
          ELSE backfilled
    /\ Invoke("chat.message", input.sessionID, [input |-> input, output |-> output], t)
    /\ UNCHANGED <<pending, created, live, afterCount, usage, completions>>

----------------------------------------------------------------------------
(* hooks: "tool.execute.before" and "tool.execute.after" *)

\* one slot for the session: the record written under every call id in flight
ToolBeforeStateSharedSlot(state, input, args, t) ==
    [state EXCEPT !.toolExecutions =
        [c \in (DOMAIN @) \cup {input.callID} |->
            [startTime |-> t, tool |-> input.tool, args |-> args]]]

ToolBeforeState(state, input, args, t) ==
    [state EXCEPT !.toolExecutions =
        Put(@, input.callID, [startTime |-> t, tool |-> input.tool, args |-> args])]

ToolBeforeTraces(input, args, t) ==
    IF Tracked(input.sessionID)
    THEN [traces EXCEPT ![input.sessionID] = ToolBeforeState(@, input, args, t)]
    ELSE traces

ToolExecuteBefore(input, args, t) ==
    /\ MayInvoke(t)
    /\ traces' = ToolBeforeTraces(input, args, t)
    /\ calls' = <<>>
    /\ Invoke("tool.execute.before", input.sessionID, [input |-> input, args |-> args], t)
    /\ UNCHANGED <<pending, created, live, afterCount, notified, backfilled, usage,
                   completions>>

\* a call id that was never recorded read as a call begun at instant 1 with args
ExecutionAssumed(state, callID) ==
    IF callID \in DOMAIN state.toolExecutions
    THEN state.toolExecutions[callID]
    ELSE [startTime |-> 1, tool |-> UNDEF, args |-> "a1"]

\* state.toolExecutions.get(input.callID)
Execution(state, callID) ==
    IF callID \in DOMAIN state.toolExecutions
    THEN state.toolExecutions[callID]
    ELSE NoExecution

\* toolCallCount++ only when the call id was recorded
ToolAfterStateMatchedOnly(state, input) ==
    [state EXCEPT !.toolCallCount =
                      IF input.callID \in DOMAIN state.toolExecutions THEN @ + 1 ELSE @,
                  !.toolExecutions = Remove(@, input.callID)]


\* tool.execute.after without state.toolExecutions.delete(input.callID)
ToolAfterStateKeepsEntry(state, input) ==
    [state EXCEPT !.toolCallCount = @ + 1]

\* toolCallCount += 2
ToolAfterStateCountsTwice(state, input) ==
    [state EXCEPT !.toolCallCount = @ + 2,
                  !.toolExecutions = Remove(@, input.callID)]

ToolAfterState(state, input) ==
    [state EXCEPT !.toolCallCount = @ + 1,
                  !.toolExecutions = Remove(@, input.callID)]

\* the after notification applied to every registered session
ToolAfterTracesEverySession(input) ==
    IF Tracked(input.sessionID)
    THEN [s \in DOMAIN traces |-> ToolAfterState(traces[s], input)]
    ELSE traces

ToolAfterTraces(input) ==
    IF Tracked(input.sessionID)
    THEN [traces EXCEPT ![input.sessionID] = ToolAfterState(@, input)]
    ELSE traces

ToolAfterCalls(input, output, t) ==
    IF Tracked(input.sessionID)
    THEN LET state == traces[input.sessionID]
         IN <<SpanCall(state, input, Execution(state, input.callID), output, t)>>
    ELSE <<>>

ToolExecuteAfter(input, output, t) ==
    /\ MayInvoke(t)
    /\ traces' = ToolAfterTraces(input)
    /\ calls' = ToolAfterCalls(input, output, t)
    /\ afterCount' = [afterCount EXCEPT ![input.sessionID] = @ + 1]
    /\ Invoke("tool.execute.after", input.sessionID, [input |-> input, output |-> output], t)
    /\ UNCHANGED <<pending, created, live, notified, backfilled, usage, completions>>

----------------------------------------------------------------------------
(* inputs *)

TextPartInputs ==
    [type : {"text"}, sessionID : SessionIds, messageID : MessageIds,
     text : Texts, start : PartStarts, end : PartEnds]

OtherPartInputs ==
    [type : {"tool"}, sessionID : SessionIds, messageID : {"m1"},
     text : {UNDEF}, start : {NoTime}, end : {NoTime}]

UserChatInputs == [sessionID : SessionIds, messageID : {UNDEF}, model : {NoModel}]

UserChatOutputs == [role : {"user"}, parts : UserParts]

AssistantChatInputs ==
    [sessionID : SessionIds, messageID : MessageIds \cup {UNDEF},
     model : ModelInfos \cup {NoModel}]

AssistantChatOutputs == [role : {"assistant"}, parts : {<<>>}]

ToolInputs == [tool : Tools, sessionID : SessionIds, callID : CallIds]

ToolOutputs == {"content"}

MessageInfos == [sessionID : SessionIds, id : {"m1"}, tokens : TokenCounts, cost : Costs]

Times == 1..MaxTime

\* the configuration of the runs that follow the handlers: both keys given
DefaultConfig == [publicKey |-> "pk-test", secretKey |-> "sk-test", baseUrl |-> UNDEF,
                  promptVersion |-> "v1"]

NoEnv == [LANGFUSE_PUBLIC_KEY |-> UNDEF, LANGFUSE_SECRET_KEY |-> UNDEF,
          LANGFUSE_BASEURL |-> UNDEF, PROMPT_VERSION |-> UNDEF]

Spans == {"span1", "span2"}

\* the state when the plugin function has returned its hooks
Started(cfg, e, b) ==
    /\ config = cfg
    /\ env = e
    /\ hooks = ReturnedHooks(Coalesce(cfg.publicKey, e.LANGFUSE_PUBLIC_KEY),
                             Coalesce(cfg.secretKey, e.LANGFUSE_SECRET_KEY))
    /\ budget = b
    /\ traces = EmptyFcn
    /\ pending = EmptyBag
    /\ now = 1
    /\ promptVersion = ResolvedPromptVersion(cfg, e)
    /\ calls = <<>>
    /\ steps = 0
    /\ last = [op |-> "init", sid |-> UNDEF, tracked |-> FALSE, arg |-> UNDEF, at |-> 1]
    /\ created = {}
    /\ live = {}
    /\ unflushed = {}
    /\ overlapped = FALSE
    /\ afterCount = [s \in SessionIds |-> 0]
    /\ notified = [s \in SessionIds |-> [m \in MessageIds |-> NoModel]]
    /\ backfilled = [s \in SessionIds |-> [m \in MessageIds |-> UNDEF]]
    /\ usage = [s \in SessionIds |-> NoUsage]
    /\ completions = [s \in SessionIds |-> [m \in MessageIds |-> 0]]
    /\ emitted = [s \in SessionIds |-> NoneEmitted]
    /\ userId = UNDEF
    /\ attributes = [sp \in Spans |-> UNDEF]
    /\ processor = <<>>
    /\ invoked = <<>>

Init == Started(DefaultConfig, NoEnv, MaxSteps)

\* The handlers that read the clock (Date.now(), new Date()) run at an instant
\* t no earlier than its latest reading; the others leave the reading as it is.
Next ==
    \/ \E sid \in SessionIds, title \in Titles, t \in Times : SessionCreated(sid, title, t)
    \/ \E part \in TextPartInputs \cup OtherPartInputs : MessagePartUpdated(part, now)
    \/ \E sid \in SessionIds \cup {UNDEF}, error \in ErrorValues :
          SessionError(sid, error, now)
    \/ \E sid \in SessionIds, t \in Times : SessionIdle(sid, t)
    \/ \E sid \in SessionIds, t \in Times : SessionDeleted(sid, t)
    \/ \E sid \in SessionIds, status \in Statuses : SessionStatus(sid, status, now)
    \/ \E info \in MessageInfos : MessageUpdated(info, now)
    \/ \E e \in OtherEvents : OtherEvent(e.type, e.sessionID, now)
    \/ \E input \in UserChatInputs, output \in UserChatOutputs :
          ChatMessage(input, output, now)
    \/ \E input \in AssistantChatInputs, output \in AssistantChatOutputs :
          ChatMessage(input, output, now)
    \/ \E input \in ToolInputs, args \in ArgsSet, t \in Times :
          ToolExecuteBefore(input, args, t)
    \/ \E input \in ToolInputs, output \in ToolOutputs, t \in Times :
          ToolExecuteAfter(input, output, t)
    \/ \E h \in BagToSet(pending) : FlushResolved(h)
    \/ \E h \in BagToSet(pending) : FlushRejected(h)

Spec == Init /\ [][Next]_vars

----------------------------------------------------------------------------
(* One session, followed for more handler invocations *)

LiveSession == "s1"

LiveTextParts ==
    [type : {"text"}, sessionID : {LiveSession}, messageID : {"m1"},
     text : {"Hello"}, start : PartStarts, end : PartEnds]

LiveUserInputs == [sessionID : {LiveSession}, messageID : {UNDEF}, model : {NoModel}]

LiveUserOutputs == [role : {"user"}, parts : UserParts]

LiveAssistantInputs == [sessionID : {LiveSession}, messageID : {"m1"}, model : ModelInfos]

LiveToolInputs == [tool : Tools, sessionID : {LiveSession}, callID : CallIds]

LiveMessageInfos ==
    [sessionID : {LiveSession}, id : {"m1"}, tokens : TokenCounts, cost : Costs]

InitLive == Started(DefaultConfig, NoEnv, MaxLiveSteps)

NextLive ==
    \/ \E t \in Times : SessionCreated(LiveSession, "My session", t)
    \/ \E part \in LiveTextParts : MessagePartUpdated(part, now)
    \/ \E t \in Times : SessionIdle(LiveSession, t)
    \/ \E info \in LiveMessageInfos : MessageUpdated(info, now)
    \/ \E input \in LiveUserInputs, output \in LiveUserOutputs :
          ChatMessage(input, output, now)
    \/ \E input \in LiveAssistantInputs, output \in AssistantChatOutputs :
          ChatMessage(input, output, now)
    \/ \E input \in LiveToolInputs, args \in ArgsSet, t \in Times :
          ToolExecuteBefore(input, args, t)
    \/ \E input \in LiveToolInputs, output \in ToolOutputs, t \in Times :
          ToolExecuteAfter(input, output, t)
    \/ \E h \in BagToSet(pending) : FlushResolved(h)
    \/ \E h \in BagToSet(pending) : FlushRejected(h)

SpecLive == InitLive /\ [][NextLive]_vars

----------------------------------------------------------------------------
(* One session's conversation: chat.message notifications, text parts and the
   terminal event, followed for one more invocation *)

MaxChatSteps == 6

ChatTextParts ==
    [type : {"text"}, sessionID : {LiveSession}, messageID : {"m1"},
     text : {"Hello"}, start : {NoTime}, end : PartEnds]

InitChat == Started(DefaultConfig, NoEnv, MaxChatSteps)

NextChat ==
    \/ \E t \in Times : SessionCreated(LiveSession, "My session", t)
    \/ \E part \in ChatTextParts : MessagePartUpdated(part, now)
    \/ \E t \in Times : SessionIdle(LiveSession, t)
    \/ \E input \in LiveUserInputs, output \in LiveUserOutputs :
          ChatMessage(input, output, now)
    \/ \E input \in LiveAssistantInputs, output \in AssistantChatOutputs :
          ChatMessage(input, output, now)
    \/ \E h \in BagToSet(pending) : FlushResolved(h)
    \/ \E h \in BagToSet(pending) : FlushRejected(h)

SpecChat == InitChat /\ [][NextChat]_vars

----------------------------------------------------------------------------
(* The plugin started under any configuration and environment: the host     *)
(* calls the hooks it was given, and calls nothing when it was given none.   *)

Configs ==
    [publicKey : {UNDEF, "", "pk-test"}, secretKey : {UNDEF, "sk-test"},
     baseUrl : {UNDEF, "https://config.example"}, promptVersion : {UNDEF, "", "v1"}]

Envs ==
    [LANGFUSE_PUBLIC_KEY : {UNDEF, "pk-env"}, LANGFUSE_SECRET_KEY : {UNDEF, "sk-env"},
     LANGFUSE_BASEURL : {UNDEF, "https://env.example"}, PROMPT_VERSION : {UNDEF, "v2"}]

\* every event type and hook name the host may deliver
HostOps == {"session.created", "message.updated"} \cup OtherHandlerOps \cup OtherTypes

\* the host has an event or notification for a hook the plugin did not return
Undelivered(op, sid, t) ==
    /\ MayInvoke(t)
    /\ HookOf(op) \notin hooks
    /\ calls' = <<>>
    /\ now' = t
    /\ steps' = steps + 1
    /\ last' = [op |-> op, sid |-> sid, tracked |-> FALSE, arg |-> UNDEF, at |-> t]
    /\ UNCHANGED <<plugin, wrapper, emitted, traces, pending, created, live, unflushed, overlapped,
                   afterCount, notified, backfilled, usage, completions>>

InitPlugin == \E cfg \in Configs, e \in Envs : Started(cfg, e, MaxPluginSteps)

NextPlugin ==
    \/ NextLive
    \/ \E op \in HostOps, sid \in SessionIds : Undelivered(op, sid, now)

SpecPlugin == InitPlugin /\ [][NextPlugin]_vars

----------------------------------------------------------------------------
(* UserIdSpanProcessor: a span processor that wraps a LangfuseSpanProcessor *)

MaxProcessorCalls == 3

UserIds == {UNDEF, "", "user-1"}

\* a call received by the wrapped processor, with the span's attribute as the
\* wrapped processor finds it
Delegated(method, span) ==
    [method |-> method, span |-> span,
     attribute |-> IF span = UNDEF THEN UNDEF ELSE attributes'[span]]

\* this.processor.onStart(span, parentContext) placed before the `if`
OnStartDelegatedFirst(span) ==
    [method |-> "onStart", span |-> span, attribute |-> attributes[span]]

\* onStart: this.processor.onStart(span, parentContext), after the `if`
OnStartDelegated(span) == Delegated("onStart", span)

\* a method of the UserIdSpanProcessor is invoked and hands these calls on
Called(method, span, delegated) ==
    /\ Len(invoked) < MaxProcessorCalls
    /\ invoked' = Append(invoked, [method |-> method, span |-> span])
    /\ processor' = processor \o delegated
    /\ UNCHANGED <<userId, config, env, hooks, budget, traces, pending, now,
                   promptVersion, calls, steps, last, created, live, unflushed,
                   overlapped, afterCount, notified, backfilled, usage, completions,
                   emitted>>

forceFlush ==
    /\ UNCHANGED attributes
    /\ Called("forceFlush", UNDEF, <<Delegated("forceFlush", UNDEF)>>)

shutdown ==
    /\ UNCHANGED attributes
    /\ Called("shutdown", UNDEF, <<Delegated("shutdown", UNDEF)>>)

\* if (this.userId) span.setAttribute("langfuse.user.id", this.userId)
onStart(span) ==
    /\ attributes' = IF Truthy(userId)
                     THEN [attributes EXCEPT ![span] = userId]
                     ELSE attributes
    /\ Called("onStart", span, <<OnStartDelegated(span)>>)

onEnd(span) ==
    /\ UNCHANGED attributes
    /\ Called("onEnd", span, <<Delegated("onEnd", span)>>)

\* new UserIdSpanProcessor(processor, userId), beside a plugin not yet called
InitProcessor ==
    /\ \E u \in UserIds :
          /\ userId = u
          /\ attributes = [sp \in Spans |-> UNDEF]
          /\ processor = <<>>
          /\ invoked = <<>>
    /\ \E cfg \in {DefaultConfig}, e \in {NoEnv} :
          /\ config = cfg /\ env = e
          /\ hooks = ReturnedHooks(Coalesce(cfg.publicKey, e.LANGFUSE_PUBLIC_KEY),
                                   Coalesce(cfg.secretKey, e.LANGFUSE_SECRET_KEY))
          /\ promptVersion = ResolvedPromptVersion(cfg, e)
    /\ budget = 0 /\ steps = 0 /\ now = 1
    /\ traces = EmptyFcn /\ pending = EmptyBag /\ calls = <<>>
    /\ last = [op |-> "init", sid |-> UNDEF, tracked |-> FALSE, arg |-> UNDEF, at |-> 1]
    /\ created = {} /\ live = {} /\ unflushed = {} /\ overlapped = FALSE
    /\ afterCount = [s \in SessionIds |-> 0]
    /\ notified = [s \in SessionIds |-> [m \in MessageIds |-> NoModel]]
    /\ backfilled = [s \in SessionIds |-> [m \in MessageIds |-> UNDEF]]
    /\ usage = [s \in SessionIds |-> NoUsage]
    /\ completions = [s \in SessionIds |-> [m \in MessageIds |-> 0]]
    /\ emitted = [s \in SessionIds |-> NoneEmitted]

NextProcessor ==
    \/ forceFlush
    \/ shutdown
    \/ \E span \in Spans : onStart(span)
    \/ \E span \in Spans : onEnd(span)

SpecProcessor == InitProcessor /\ [][NextProcessor]_vars

----------------------------------------------------------------------------
(* Properties *)

Flushes(cs) == SelectSeq(cs, LAMBDA c : c.kind = "flush")

Scores(cs) == SelectSeq(cs, LAMBDA c : c.kind = "score")

\* the latest step began the handling of a terminal event of a registered session
TerminalBegun == last.op \in TerminalTypes /\ last.tracked

C2_GenerationOnlyOnCompletion ==
    (last.op = "message.part.updated" /\ last.tracked /\ last.arg.type = "text")
        => IF last.arg.end = NoTime
           THEN /\ Generations(calls) = <<>>
                /\ MapHas(traces[last.sid].messages, last.arg.messageID)
                /\ MapGet(traces[last.sid].messages, last.arg.messageID).text
                      = last.arg.text
           ELSE /\ Len(calls) = 1
                /\ calls[1].kind = "generation"
                /\ calls[1].name = "ai-response"
                /\ calls[1].output = last.arg.text

\* a completing part whose generation carries the start time of an earlier part
C2_Witness ==
    /\ last.op = "message.part.updated" /\ last.tracked /\ last.arg.type = "text"
    /\ last.arg.end # NoTime
    /\ last.arg.text = "Hello world"
    /\ Len(calls) = 1
    /\ calls[1].startTime # last.arg.start

\* C3: for a session and a message id, at most one generation is made by parts
\* carrying an end time.
C3_AtMostOneCompletion ==
    \A s \in SessionIds, m \in MessageIds : completions[s][m] <= 1

\* C4 as stated: a terminal event of a registered session makes one generation
\* for each buffered Message State, whatever its text, and empties the map.
C4_OneGenerationPerBuffered ==
    [][(steps' = steps + 1 /\ last'.op \in TerminalTypes /\ last'.tracked)
          => /\ Len(Generations(calls')) = Len(traces[last'.sid].messages)
             /\ traces'[last'.sid].messages = <<>>]_vars

\* C4 as amended: a terminal event of a registered session makes one generation
\* for each buffered Message State whose text is not empty, in the order of the
\* map, with that text as output, and none for the others; the map is empty
\* afterwards.
C4_OneGenerationPerNonEmptyBuffered ==
    [][(steps' = steps + 1 /\ last'.op \in TerminalTypes /\ last'.tracked)
          => LET buffered == traces[last'.sid].messages
                 nonEmpty == SelectSeq(buffered, LAMBDA e : e.val.text # "")
                 gens == Generations(calls')
             IN /\ Len(gens) = Len(nonEmpty)
                /\ \A i \in 1..Len(gens) :
                      /\ gens[i].trace = last'.sid
                      /\ gens[i].messageId = nonEmpty[i].id
                      /\ gens[i].output = nonEmpty[i].val.text
                /\ traces'[last'.sid].messages = <<>>]_vars

C4_Witness ==
    /\ TerminalBegun
    /\ Len(Generations(calls)) >= 1
    /\ traces[last.sid].messages = <<>>

\* C5: once a session.idle or session.deleted handler of a session has
\* returned, and until the next session.created for the id, the id is not in
\* the registry and a session.idle or session.deleted for it makes no call.
C5_TerminatedStaysGone ==
    \A s \in created \ live :
        /\ ~Tracked(s)
        /\ (last.op \in TerminalTypes /\ last.sid = s) => calls = <<>>

C5_Witness ==
    /\ last.op \in TerminalTypes
    /\ last.sid \in created \ live
    /\ ~last.tracked

\* C6: the registered ids are exactly those for which session.created has been
\* handled with no session.idle/session.deleted handler returned since.
C6_RegistryIsLiveSessions == DOMAIN traces = live

C6_Witness ==
    /\ live # {}
    /\ created \ live # {}
    /\ last.op = "flush.resolved"

\* C7: when a session is removed from the registry, every record made on its
\* trace has been followed by an invocation of flushAsync, whatever chat.message
\* and tool.execute.before/after notifications were handled while an event
\* handler was suspended (the events themselves delivered one after the other).
C7_FlushedBeforeRemoval ==
    (last.op = "flush.resolved" /\ last.arg \in TerminalTypes /\ last.tracked
        /\ ~overlapped)
        => last.sid \notin unflushed

\* C8: a step invokes flushAsync once when it begins the handling of
\* session.idle, session.deleted or session.error of a registered session, and
\* no step invokes it otherwise.
C8_FlushOncePerTerminalOrError ==
    Len(Flushes(calls)) =
        IF last.op \in TerminalTypes \cup {"session.error"} /\ last.tracked
        THEN 1 ELSE 0

C8_Witness ==
    /\ last.op = "session.error" /\ last.tracked
    /\ Len(Flushes(calls)) = 1

C11_DrainScoresFlushThenRemove ==
    [][/\ (steps' = steps + 1 /\ last'.op \in TerminalTypes /\ last'.tracked)
            => LET n == Len(calls') - 4
               IN /\ n >= 0
                  /\ \A i \in 1..n : calls'[i].kind = "generation"
                  /\ \A i \in (n + 1)..(n + 3) : calls'[i].kind = "score"
                  /\ calls'[n + 4].kind = "flush"
                  /\ last'.sid \in DOMAIN traces'
       /\ \A s \in DOMAIN traces :
              s \notin DOMAIN traces'
                  => /\ last'.op = "flush.resolved"
                     /\ last'.arg \in TerminalTypes
                     /\ last'.sid = s
                     /\ calls' = <<>>]_vars

\* three handlers run, the last a terminal event whose flush then resolved: the
\* session leaves the registry in that step
C11_Witness ==
    /\ last.op = "flush.resolved" /\ last.arg \in TerminalTypes
    /\ last.tracked /\ ~Tracked(last.sid)
    /\ completions[last.sid] = [m \in MessageIds |-> 0]
    /\ steps = 3

\* C12: when a text part with an end time is handled for a registered session
\* and an assistant chat.message carrying model info for the part's message id
\* has been handled since the session's session.created, the generation made
\* has that model and that provider id.
C12_NotifiedModelOnGeneration ==
    (/\ last.op = "message.part.updated" /\ last.tracked
     /\ last.arg.type = "text" /\ last.arg.end # NoTime
     /\ notified[last.sid][last.arg.messageID] # NoModel)
        => /\ Len(calls) = 1
           /\ calls[1].model = notified[last.sid][last.arg.messageID].modelID
           /\ calls[1].providerId = notified[last.sid][last.arg.messageID].providerID

\* the latest step was a text part with an end time for a registered session
CompletionHandled ==
    /\ last.op = "message.part.updated" /\ last.tracked
    /\ last.arg.type = "text" /\ last.arg.end # NoTime

\* C13: a session's lastUserInput is set by a user chat.message whose text
\* parts, joined by newlines, are not empty, to that joined text, and changes
\* in no other step but a session.created of the id; a text part with an end
\* time whose Message State holds no input makes a generation whose input is
\* the session's lastUserInput.
C13_InputFallsBackToLastUserInput ==
    [][/\ \A s \in DOMAIN traces \cap DOMAIN traces' :
              traces'[s].lastUserInput # traces[s].lastUserInput
                  => \/ last'.op = "session.created" /\ last'.sid = s
                     \/ /\ last'.op = "chat.message" /\ last'.sid = s
                        /\ last'.arg.output.role = "user"
                        /\ traces'[s].lastUserInput # ""
       /\ (steps' = steps + 1 /\ last'.op = "chat.message" /\ last'.tracked
              /\ last'.arg.output.role = "user"
              /\ JoinNl(TextsOf(last'.arg.output.parts)) # "")
            => traces'[last'.sid].lastUserInput = JoinNl(TextsOf(last'.arg.output.parts))
       /\ (steps' = steps + 1 /\ CompletionHandled'
              /\ ~Truthy(ExistingMessage(traces[last'.sid], last'.arg.messageID).input))
            => /\ Len(calls') = 1
               /\ calls'[1].kind = "generation"
               /\ calls'[1].input = traces[last'.sid].lastUserInput]_vars

\* a completion after user input of two text parts, with no assistant
\* chat.message for the message id
C13_Witness ==
    /\ CompletionHandled
    /\ notified[last.sid][last.arg.messageID] = NoModel
    /\ calls[1].input = "hi\nthere"
    /\ traces[last.sid].lastUserInput = "hi\nthere"
    /\ steps = 4

\* C14: a tool.execute.before of a registered session records, under its call
\* id, the instant it is handled and its args, and the record stays as it is
\* until a tool.execute.before or tool.execute.after of that call id (or a
\* session.created of the session); a tool.execute.after whose call id is
\* recorded makes exactly one span, named "tool.<tool>", whose input is the
\* recorded args, whose startTime is the recorded instant and whose endTime is
\* the instant the after notification is handled, no earlier than startTime.
C14_SpanOfMatchedToolCall ==
    [][/\ (steps' = steps + 1 /\ last'.op = "tool.execute.before" /\ last'.tracked)
            => /\ last'.arg.input.callID \in DOMAIN traces'[last'.sid].toolExecutions
               /\ traces'[last'.sid].toolExecutions[last'.arg.input.callID]
                     = [startTime |-> last'.at, tool |-> last'.arg.input.tool,
                        args |-> last'.arg.args]
       /\ \A s \in DOMAIN traces \cap DOMAIN traces' :
              \A c \in DOMAIN traces[s].toolExecutions :
                  (\/ c \notin DOMAIN traces'[s].toolExecutions
                   \/ traces'[s].toolExecutions[c] # traces[s].toolExecutions[c])
                      => /\ last'.sid = s
                         /\ \/ last'.op = "session.created"
                            \/ /\ last'.op \in {"tool.execute.before", "tool.execute.after"}
                               /\ last'.arg.input.callID = c
       /\ (/\ steps' = steps + 1 /\ last'.op = "tool.execute.after" /\ last'.tracked
           /\ last'.arg.input.callID \in DOMAIN traces[last'.sid].toolExecutions)
            => LET before == traces[last'.sid].toolExecutions[last'.arg.input.callID]
               IN /\ Len(calls') = 1
                  /\ calls'[1].kind = "span"
                  /\ calls'[1].trace = last'.sid
                  /\ calls'[1].name = "tool." \o last'.arg.input.tool
                  /\ calls'[1].input = before.args
                  /\ calls'[1].startTime = before.startTime
                  /\ calls'[1].endTime = last'.at
                  /\ calls'[1].endTime >= calls'[1].startTime]_vars

\* a span of a call recorded at instant 1 with args a2 and ended at instant 2
C14_Witness ==
    /\ last.op = "tool.execute.after" /\ last.tracked
    /\ Len(calls) = 1
    /\ calls[1].name = "tool.read"
    /\ calls[1].input = "a2"
    /\ calls[1].startTime = 1
    /\ calls[1].endTime = 2

\* C15: a step of a handler that references a session id leaves the Session
\* Trace State of every other registered session as it was (and the session
\* registered), and makes no generation, span, score or event on the trace of
\* another session.
C15_NoCrossContamination ==
    [][\A b \in DOMAIN traces :
          b # last'.sid
              => /\ b \in DOMAIN traces'
                 /\ traces'[b] = traces[b]
                 /\ \A i \in 1..Len(calls') :
                        calls'[i].kind \in RecordKinds => calls'[i].trace # b]_vars

\* both sessions registered, at different instants, and a span made on one
C15_Witness ==
    /\ DOMAIN traces = SessionIds
    /\ last.op = "tool.execute.after" /\ last.tracked
    /\ Len(calls) = 1
    /\ \E b \in SessionIds \ {last.sid} : traces[b].startTime # traces[last.sid].startTime

\* C16: in every state and for every session id, the session.deleted handler
\* makes the calls the session.idle handler makes, in the same order, leaves
\* the registry as the session.idle handler leaves it when it suspends, and
\* leaves it as the session.idle handler does when the flush has resolved.
C16_DeletedSameAsIdle ==
    \A s \in SessionIds :
        /\ \A t \in Instants : SessionDeletedCalls(s, t) = TerminalCalls(s, t)
        /\ SessionDeletedTraces(s) = TerminalTraces(s)
        /\ AfterFlush([type |-> "session.deleted", sid |-> s])
              = AfterFlush([type |-> "session.idle", sid |-> s])

\* a session.deleted that drained a buffered message of a registered session
C16_Witness ==
    /\ last.op = "session.deleted" /\ last.tracked
    /\ Len(Generations(calls)) = 1
    /\ Len(calls) = 5
    /\ traces[last.sid].messages = <<>>

\* C17: a session.error of a registered session makes exactly one event, named
\* "session-error" with level ERROR, on the session's trace; its output holds
\* the error's name (or "unknown" when the error has none) and its data, and is
\* undefined when the event carries no error; flushAsync is invoked next, once,
\* and the handler is suspended on it: it has not returned.
C17_ErrorEventThenFlush ==
    (last.op = "session.error" /\ last.tracked)
        => /\ Len(calls) = 2
           /\ calls[1].kind = "event"
           /\ calls[1].trace = last.sid
           /\ calls[1].name = "session-error"
           /\ calls[1].level = "ERROR"
           /\ calls[1].output.defined = last.arg.present
           /\ last.arg.present
                 => /\ calls[1].output.type =
                          IF last.arg.name \in {UNDEF, ""} THEN "unknown" ELSE last.arg.name
                    /\ calls[1].output.data = last.arg.data
           /\ calls[2].kind = "flush"
           /\ BagIn([type |-> "session.error", sid |-> last.sid], pending)

\* the event of an error with a name and data
C17_Witness ==
    /\ last.op = "session.error" /\ last.tracked
    /\ calls[1].output.type = "ApiError"
    /\ calls[1].output.data = "details"
    /\ calls[2] = FlushCall

\* C18: when the public key or the secret key is absent (or empty), the plugin
\* returned no hook, and whatever the host has had to deliver since, no call
\* was made on the client and nothing was registered.
C18_NoKeysNoHooksNoCalls ==
    (~Truthy(publicKey) \/ ~Truthy(secretKey))
        => /\ hooks = {}
           /\ calls = <<>>
           /\ traces = EmptyFcn
           /\ pending = EmptyBag

\* the secret key given and the public key absent; the host has had two
\* deliveries to make, the latest a tool.execute.after
C18_Witness ==
    /\ publicKey = UNDEF /\ secretKey = "sk-test"
    /\ created = {}
    /\ last.op = "tool.execute.after"
    /\ steps = 2
    /\ calls = <<>>

\* C19: a session.idle of a registered session for which message.updated
\* events carrying token usage and cost have been handled makes the scores
\* input-tokens, output-tokens and total-cost-usd with the totals of those
\* events.
C19_TokenAndCostScores ==
    (last.op = "session.idle" /\ last.tracked /\ usage[last.sid] # NoUsage)
        => /\ \E i \in 1..Len(calls) :
                 /\ calls[i].kind = "score" /\ calls[i].name = "input-tokens"
                 /\ calls[i].value = usage[last.sid].input
           /\ \E i \in 1..Len(calls) :
                 /\ calls[i].kind = "score" /\ calls[i].name = "output-tokens"
                 /\ calls[i].value = usage[last.sid].output
           /\ \E i \in 1..Len(calls) :
                 /\ calls[i].kind = "score" /\ calls[i].name = "total-cost-usd"
                 /\ calls[i].value = usage[last.sid].cost

\* C20: a session.created for an id that is registered leaves the id registered
\* with a fresh Session Trace State (both counters 0, no buffered message, no
\* recorded tool execution, lastUserInput unset, startTime the instant of this
\* event) and makes one call, the trace: no generation and no score for what
\* the replaced state held.
C20_RecreatedSessionIsFresh ==
    (last.op = "session.created" /\ last.tracked)
        => /\ Tracked(last.sid)
           /\ traces[last.sid].messageCount = 0
           /\ traces[last.sid].toolCallCount = 0
           /\ traces[last.sid].messages = <<>>
           /\ DOMAIN traces[last.sid].toolExecutions = {}
           /\ traces[last.sid].lastUserInput = UNDEF
           /\ traces[last.sid].startTime = last.at
           /\ Len(calls) = 1
           /\ calls[1].kind = "trace"
           /\ calls[1].trace = last.sid

\* the replaced state had made a record on the trace (a generation, a span or
\* an event) that no flush has followed
C20_Witness ==
    /\ last.op = "session.created" /\ last.tracked
    /\ last.sid \in unflushed
    /\ traces[last.sid].startTime = 2
    /\ steps = 3

\* C21 as stated: across every step in which a session is registered before
\* and after, neither counter decreases and each changes by at most 1.
C21_CountersNeverDecrease ==
    [][\A s \in DOMAIN traces \cap DOMAIN traces' :
          /\ traces'[s].messageCount - traces[s].messageCount \in {0, 1}
          /\ traces'[s].toolCallCount - traces[s].toolCallCount \in {0, 1}]_vars

\* C21 as amended: across every step in which a session is registered before
\* and after, other than a session.created of its id (which sets both counters
\* to 0), neither counter decreases and each changes by at most 1.
C21_CountersNeverDecreaseUntilRecreated ==
    [][\A s \in DOMAIN traces \cap DOMAIN traces' :
          IF last'.op = "session.created" /\ last'.sid = s /\ steps' = steps + 1
          THEN traces'[s].messageCount = 0 /\ traces'[s].toolCallCount = 0
          ELSE /\ traces'[s].messageCount - traces[s].messageCount \in {0, 1}
               /\ traces'[s].toolCallCount - traces[s].toolCallCount \in {0, 1}]_vars

\* both counters raised, one of them twice
C21_Witness ==
    /\ Tracked(LiveSession)
    /\ traces[LiveSession].toolCallCount = 2
    /\ traces[LiveSession].messageCount = 1

\* C22: while a Message State stays buffered, a startTime it holds is changed
\* by no step, whatever start time a later part of the message carries; and a
\* text part with an end time, for a message whose buffered state holds a
\* startTime, makes a generation with that startTime.
C22_StartTimeSetOnce ==
    [][\A s \in DOMAIN traces \cap DOMAIN traces' :
          \A m \in MessageIds :
              (MapHas(traces[s].messages, m)
                  /\ MapGet(traces[s].messages, m).startTime # NoTime)
                  => /\ MapHas(traces'[s].messages, m)
                        => MapGet(traces'[s].messages, m).startTime
                              = MapGet(traces[s].messages, m).startTime
                     /\ (/\ steps' = steps + 1 /\ CompletionHandled'
                         /\ last'.sid = s /\ last'.arg.messageID = m)
                        => /\ Len(calls') = 1
                           /\ calls'[1].startTime
                                 = MapGet(traces[s].messages, m).startTime]_vars

\* a completing part carrying start time 2 whose generation starts at 1, the
\* start time of an earlier part
C22_Witness ==
    /\ CompletionHandled
    /\ last.arg.start = 2
    /\ Len(calls) = 1
    /\ calls[1].startTime = 1

\* C23: a message.part.updated whose part is not a text part, for a registered
\* session or not, leaves the registry (every counter and every Message State)
\* as it was, suspends no handler and makes no call.
C23_NonTextPartIsNoOp ==
    [][(/\ steps' = steps + 1 /\ last'.op = "message.part.updated"
        /\ last'.arg.type # "text")
          => /\ traces' = traces
             /\ pending' = pending
             /\ calls' = <<>>]_vars

\* a non-text part for a registered session that holds a buffered message
C23_Witness ==
    /\ last.op = "message.part.updated" /\ last.arg.type = "tool"
    /\ last.tracked
    /\ traces[last.sid].messages # <<>>

\* C24: a session.status of a registered session makes exactly one call, an
\* event named "status-update" on the session's trace whose output is the
\* event's status, and leaves the registry (ids, counters, Message States and
\* tool executions) and the suspended handlers as they were.
C24_StatusEventOnly ==
    [][(steps' = steps + 1 /\ last'.op = "session.status" /\ last'.tracked)
          => /\ Len(calls') = 1
             /\ calls'[1].kind = "event"
             /\ calls'[1].trace = last'.sid
             /\ calls'[1].name = "status-update"
             /\ calls'[1].level = "DEFAULT"
             /\ calls'[1].output = last'.arg
             /\ traces' = traces
             /\ pending' = pending]_vars

\* a status event of a session whose tool-call counter is 1
C24_Witness ==
    /\ last.op = "session.status" /\ last.tracked
    /\ calls[1].output = "busy"
    /\ traces[last.sid].toolCallCount = 1

\* C25: a tool.execute.after of a registered session whose call id is not
\* recorded runs to its end: it counts the call and makes exactly one span,
\* named "tool.<tool>", whose startTime and endTime are both the instant it is
\* handled at and whose input is undefined.
C25_UnmatchedAfterTolerated ==
    [][(/\ steps' = steps + 1 /\ last'.op = "tool.execute.after" /\ last'.tracked
        /\ last'.arg.input.callID \notin DOMAIN traces[last'.sid].toolExecutions)
          => /\ Len(calls') = 1
             /\ calls'[1].kind = "span"
             /\ calls'[1].trace = last'.sid
             /\ calls'[1].name = "tool." \o last'.arg.input.tool
             /\ calls'[1].startTime = last'.at
             /\ calls'[1].endTime = last'.at
             /\ calls'[1].input = UNDEF
             /\ traces'[last'.sid].toolCallCount = traces[last'.sid].toolCallCount + 1
             /\ traces'[last'.sid].toolExecutions = traces[last'.sid].toolExecutions]_vars

\* an after at instant 2 with no before, while another call id is recorded
C25_Witness ==
    /\ last.op = "tool.execute.after" /\ last.tracked
    /\ Len(calls) = 1
    /\ calls[1].input = UNDEF
    /\ calls[1].startTime = 2 /\ calls[1].endTime = 2
    /\ DOMAIN traces[last.sid].toolExecutions # {}

\* C26: the tool-execution map of a session is empty when the session is
\* registered, and from then on, while the session stays registered, a
\* tool.execute.before of the session adds its call id, a tool.execute.after
\* of the session removes its call id (after reading the entry for the span),
\* a session.created of the id empties the map, and no other step changes the
\* call ids it holds: the map holds exactly the call ids with a
\* tool.execute.before and no tool.execute.after since.
C26_ToolExecutionsAreCallsInFlight ==
    [][/\ \A s \in (DOMAIN traces') \ (DOMAIN traces) :
              DOMAIN traces'[s].toolExecutions = {}
       /\ \A s \in DOMAIN traces \cap DOMAIN traces' :
              LET before == DOMAIN traces[s].toolExecutions
                  after == DOMAIN traces'[s].toolExecutions
                  handled == steps' = steps + 1 /\ last'.sid = s
              IN IF handled /\ last'.op = "tool.execute.before"
                 THEN after = before \cup {last'.arg.input.callID}
                 ELSE IF handled /\ last'.op = "tool.execute.after"
                 THEN /\ after = before \ {last'.arg.input.callID}
                      /\ last'.arg.input.callID \in before
                            => calls'[1].input
                                  = traces[s].toolExecutions[last'.arg.input.callID].args
                 ELSE IF handled /\ last'.op = "session.created"
                 THEN after = {}
                 ELSE after = before]_vars

\* two calls begun, the first ended: the map holds the second only
C26_Witness ==
    /\ last.op = "tool.execute.after" /\ last.tracked
    /\ last.arg.input.callID = "c1"
    /\ calls[1].input # UNDEF
    /\ DOMAIN traces[last.sid].toolExecutions = {"c2"}

\* C27: tool calls are keyed by call id alone.  A tool.execute.before or
\* tool.execute.after of one call id leaves the entry of every other call id
\* in flight in the session as it was, and the span of a tool.execute.after
\* whose call id is recorded carries the startTime and the args of the entry of
\* its own call id, whatever other calls are in flight.
C27_CallsKeyedByCallId ==
    [][\A s \in DOMAIN traces \cap DOMAIN traces' :
          (/\ steps' = steps + 1 /\ last'.sid = s
           /\ last'.op \in {"tool.execute.before", "tool.execute.after"})
              => LET c == last'.arg.input.callID
                     execs == traces[s].toolExecutions
                 IN /\ \A d \in (DOMAIN execs) \ {c} :
                          /\ d \in DOMAIN traces'[s].toolExecutions
                          /\ traces'[s].toolExecutions[d] = execs[d]
                    /\ (last'.op = "tool.execute.after" /\ c \in DOMAIN execs)
                          => /\ calls'[1].callId = c
                             /\ calls'[1].startTime = execs[c].startTime
                             /\ calls'[1].input = execs[c].args]_vars

\* c1 begun at instant 1 with args a1, c2 begun at instant 2 with args a2, and
\* c1 ended first: its span carries its own start and args, c2's entry stays
C27_Witness ==
    /\ last.op = "tool.execute.after" /\ last.tracked
    /\ last.arg.input.callID = "c1"
    /\ calls[1].startTime = 1 /\ calls[1].input = "a1"
    /\ "c2" \in DOMAIN traces[last.sid].toolExecutions
    /\ traces[last.sid].toolExecutions["c2"].startTime = 2
    /\ traces[last.sid].toolExecutions["c2"].args = "a2"

\* C28: when a text part with an end time is handled for a registered session
\* and an assistant chat.message with model info for the part's message id has
\* back-filled a non-empty lastUserInput since the session's session.created,
\* the generation made has that back-filled value as input, whatever the
\* session's lastUserInput has become since.
C28_BackfilledInputOnGeneration ==
    (/\ CompletionHandled
     /\ Truthy(backfilled[last.sid][last.arg.messageID]))
        => /\ Len(calls) = 1
           /\ calls[1].input = backfilled[last.sid][last.arg.messageID]

\* C29: a step that handles a session.created makes exactly one call on the
\* client, a trace creation whose id is the session id and whose name is the
\* session title, or "OpenCode Session" when the title is absent or empty; a
\* step of any other event or notification makes no trace creation.
C29_OneTracePerSessionCreated ==
    IF last.op = "session.created"
    THEN /\ Len(calls) = 1
         /\ calls[1].kind = "trace"
         /\ calls[1].trace = last.sid
         /\ calls[1].name = IF last.arg \in {UNDEF, ""} THEN "OpenCode Session"
                            ELSE last.arg
    ELSE \A i \in DOMAIN calls : calls[i].kind # "trace"

\* a session.created with an empty title has made the trace of a second
\* session under the default name while the first session stays registered
C29_Witness ==
    /\ last.op = "session.created" /\ last.sid = "s2" /\ last.arg = ""
    /\ calls = <<TraceCall("s2", "")>>
    /\ calls[1].name = "OpenCode Session"
    /\ Tracked("s1")

\* C30: the tags of every trace creation are "opencode" followed by the
\* plugin's prompt version when the prompt version is neither absent nor
\* empty, and exactly <<"opencode">> when it is absent or empty.
C30_TagsCarryPromptVersionIffSet ==
    \A i \in DOMAIN calls :
        calls[i].kind = "trace"
            => /\ (promptVersion \notin {UNDEF, ""}
                      => calls[i].tags = <<"opencode", promptVersion>>)
               /\ (promptVersion \in {UNDEF, ""}
                      => calls[i].tags = <<"opencode">>)

\* a trace was made by a plugin whose configuration gives an empty prompt
\* version while the environment names one
C30_Witness ==
    /\ last.op = "session.created" /\ last.tracked = FALSE
    /\ config.promptVersion = "" /\ env.PROMPT_VERSION = "v2"
    /\ Len(calls) = 1 /\ calls[1].kind = "trace"
    /\ calls[1].tags = <<"opencode">>

\* the handlers that await the client's flush
FlushingTypes == {"session.error", "session.idle", "session.deleted"}

\* C31: when the flush awaited by a session.idle, session.deleted or
\* session.error handler fails, the handler ends at its await with the failure
\* passed to the caller of the hook: it is suspended no longer, no statement
\* after the await runs (the registry is as it was, the session of a terminal
\* event stays registered) and it makes no further call.
C31_FlushFailurePropagates ==
    [][(last'.op = "flush.rejected" /\ pending' # pending)
          => LET h == [type |-> last'.arg, sid |-> last'.sid]
             IN /\ h.type \in FlushingTypes
                /\ BagIn(h, pending)
                /\ pending' = pending (-) SetToBag({h})
                /\ traces' = traces
                /\ calls' = <<>>]_vars

\* the flush of a session.idle was rejected and the session is still
\* registered; the flush of a session.error is still awaited
C31_Witness ==
    /\ last.op = "flush.rejected" /\ last.arg = "session.idle"
    /\ Tracked(last.sid)
    /\ \E h \in BagToSet(pending) : h.type = "session.error"

C33_EnvironmentOverridesConfig ==
    /\ (config.publicKey # UNDEF /\ env.LANGFUSE_PUBLIC_KEY # UNDEF)
          => publicKey = env.LANGFUSE_PUBLIC_KEY
    /\ (config.secretKey # UNDEF /\ env.LANGFUSE_SECRET_KEY # UNDEF)
          => secretKey = env.LANGFUSE_SECRET_KEY
    /\ (config.baseUrl # UNDEF /\ env.LANGFUSE_BASEURL # UNDEF)
          => baseUrl = env.LANGFUSE_BASEURL
    /\ (config.promptVersion # UNDEF /\ env.PROMPT_VERSION # UNDEF)
          => promptVersion = env.PROMPT_VERSION

\* C33: for each of publicKey, secretKey, baseUrl and promptVersion the
\* resolved value is the configuration field's whenever that field is given,
\* also when the environment variable is given too; the environment
\* variable's value is the resolved one only when the field is not given.
C33_ConfigOverridesEnvironment ==
    /\ publicKey = IF config.publicKey # UNDEF THEN config.publicKey
                   ELSE env.LANGFUSE_PUBLIC_KEY
    /\ secretKey = IF config.secretKey # UNDEF THEN config.secretKey
                   ELSE env.LANGFUSE_SECRET_KEY
    /\ baseUrl = IF config.baseUrl # UNDEF THEN config.baseUrl
                 ELSE IF env.LANGFUSE_BASEURL # UNDEF THEN env.LANGFUSE_BASEURL
                 ELSE DefaultBaseUrl
    /\ promptVersion = IF config.promptVersion # UNDEF THEN config.promptVersion
                       ELSE env.PROMPT_VERSION

\* a plugin started with all four fields given both ways has made a trace
\* tagged with the configuration's prompt version
C33_Witness ==
    /\ config = [publicKey |-> "pk-test", secretKey |-> "sk-test",
                 baseUrl |-> "https://config.example", promptVersion |-> "v1"]
    /\ env = [LANGFUSE_PUBLIC_KEY |-> "pk-env", LANGFUSE_SECRET_KEY |-> "sk-env",
              LANGFUSE_BASEURL |-> "https://env.example", PROMPT_VERSION |-> "v2"]
    /\ hooks = Handlers
    /\ last.op = "session.created"
    /\ Len(calls) = 1 /\ calls[1].tags = <<"opencode", "v1">>

\* C34: every method invoked on the UserIdSpanProcessor hands exactly one call
\* of the same method (and span) to the wrapped processor; onStart leaves the
\* span with "langfuse.user.id" equal to the user id when a non-empty user id
\* was given and leaves the span's attribute as it was otherwise, and the
\* wrapped processor's onStart finds the span as onStart leaves it; no other
\* method and no other span's onStart changes a span's attribute.
C34_UserIdSetBeforeDelegation ==
    [][invoked' # invoked
          => LET call == invoked'[Len(invoked')]
                 handed == processor'[Len(processor')]
             IN /\ Len(processor') = Len(processor) + 1
                /\ SubSeq(processor', 1, Len(processor)) = processor
                /\ handed.method = call.method /\ handed.span = call.span
                /\ \A sp \in Spans :
                      attributes'[sp] =
                         IF call.method = "onStart" /\ call.span = sp
                               /\ userId \notin {UNDEF, ""}
                         THEN userId
                         ELSE attributes[sp]
                /\ call.method = "onStart"
                      => handed.attribute = attributes'[call.span]]_vars

\* a processor given a user id has started one span, ended it and shut down;
\* the wrapped processor found the user id on the span at onStart, and the
\* span that was never started carries no user id
C34_Witness ==
    /\ userId = "user-1"
    /\ Len(invoked) = 3
    /\ processor = << [method |-> "onStart", span |-> "span1", attribute |-> "user-1"],
                      [method |-> "onEnd", span |-> "span1", attribute |-> "user-1"],
                      [method |-> "shutdown", span |-> UNDEF, attribute |-> UNDEF] >>
    /\ attributes["span2"] = UNDEF

\* C35: since the latest session.created of an id, each of the scores
\* messages-count, tools-count and duration-ms has been made at most once on
\* the id's trace, whatever terminal events were delivered and however their
\* flushes ended.
C35_ScoresAtMostOnce ==
    \A s \in SessionIds, n \in ScoreNames : emitted[s].scores[n] <= 1

\* C36: when a terminal event is handled for a registered session, the value
\* of the messages-count score it makes is the number of generations made on
\* the session's trace since its session.created, those of completed parts
\* and those of the drain of this and of earlier terminal events alike.
C36_MessagesCountIsGenerations ==
    TerminalBegun
        => \A i \in DOMAIN calls :
              (calls[i].kind = "score" /\ calls[i].name = "messages-count")
                  => calls[i].value = emitted[last.sid].generations

\* C37: a session registered by session.created stays registered until a
\* terminal event delivered after that session.created has been handled. The
\* step that follows the session.created of an id can end no such handling
\* (a terminal event delivered after it takes a step of its own to begin), so
\* that step leaves the id registered, also when it resumes a terminal
\* handler of the same id that was suspended before the session.created.
C37_RecreatedSessionSurvivesResume ==
    [][(last.op = "session.created" /\ Tracked(last.sid))
          => last.sid \in DOMAIN traces']_vars

\* C38: no Message State held in the message map of a registered session has
\* an endTime, and every generation made by the drain of a terminal event has
\* the instant of the drain as its endTime.
C38_NoBufferedEndTime ==
    /\ \A s \in DOMAIN traces :
          \A i \in 1..Len(traces[s].messages) :
              traces[s].messages[i].val.endTime = NoTime
    /\ TerminalBegun
          => \A i \in DOMAIN calls :
                calls[i].kind = "generation" => calls[i].endTime = last.at

\* a message completed once and updated again without an end time was
\* drained by a session.idle, with the instant of the idle as its endTime
C38_Witness ==
    /\ last.op = "session.idle" /\ last.tracked
    /\ completions[last.sid]["m1"] = 1
    /\ Len(Generations(calls)) = 1
    /\ calls[1].messageId = "m1" /\ calls[1].endTime = last.at

\* C39: the handling of a session.error, up to its await and after it,
\* leaves the registry as it was: the session stays registered, and its
\* messageCount, toolCallCount, message map, tool-execution map and
\* lastUserInput are unchanged, so that every handler that runs afterwards
\* finds the state it would have found without the error.
C39_SessionErrorLeavesState ==
    [][((last'.op = "session.error" /\ steps' # steps)
           \/ (pending' # pending /\ last'.arg = "session.error"
                  /\ last'.op \in {"flush.resolved", "flush.rejected"}))
          => traces' = traces]_vars

\* the flush of a session.error has resolved, and the session is registered
\* with the message it had buffered before the error
C39_Witness ==
    /\ last.op = "flush.resolved" /\ last.arg = "session.error"
    /\ Tracked(last.sid)
    /\ traces[last.sid].messages # <<>>

====
